---- MODULE Spec2Model ----
(***************************************************************************)
(* Model of github.com/joeychilson/webpage: the option builders, the two   *)
(* export operations (Webpage.PDF, Webpage.Screenshot) and the webpage CLI.*)
(*                                                                         *)
(* Conventions.  Lengths (scale, paper size, margins) are fixed-point      *)
(* numbers in tenths: 0.4 is 4, 8.5 is 85, 11.0 is 110, 1.0 is 10.         *)
(* Durations are whole seconds.  A Go error is the sequence of the         *)
(* messages of its %w chain, outermost first, the root cause last; the nil *)
(* error is <<>>.  A []byte is a sequence of numbers; nil is <<>>.         *)
(***************************************************************************)
EXTENDS Integers, Sequences, FiniteSets, TLC

VARIABLES calls, liveProcs, nextProc, cli, built

vars == <<calls, liveProcs, nextProc, cli, built>>

(***************************************************************************)
(* Bounds of the model.                                                    *)
(***************************************************************************)
\* Number of export calls a host program runs concurrently.
NumCalls == 2
\* Longest sequence of option setters handed to a builder.
MaxOpts == 2

Calls == 1..NumCalls

(***************************************************************************)
(* Option setters (webpage.go).  A setter value is the closure the With... *)
(* function returns: its name and its captured argument (b, n or s         *)
(* according to the argument's Go type).                                   *)
(***************************************************************************)
Setter(name, b, n, s) == [name |-> name, b |-> b, n |-> n, s |-> s]

WithTimeout(d) == Setter("WithTimeout", FALSE, d, "")
WithUserAgent(ua) == Setter("WithUserAgent", FALSE, 0, ua)

WithLandscape(enable) == Setter("WithLandscape", enable, 0, "")
WithBackground(enable) == Setter("WithBackground", enable, 0, "")
WithScale(scale) == Setter("WithScale", FALSE, scale, "")
WithPaperWidth(width) == Setter("WithPaperWidth", FALSE, width, "")
WithPaperHeight(height) == Setter("WithPaperHeight", FALSE, height, "")
WithMarginTop(top) == Setter("WithMarginTop", FALSE, top, "")
WithMarginBottom(bottom) == Setter("WithMarginBottom", FALSE, bottom, "")
WithMarginLeft(left) == Setter("WithMarginLeft", FALSE, left, "")
WithMarginRight(right) == Setter("WithMarginRight", FALSE, right, "")
WithPageRanges(ranges) == Setter("WithPageRanges", FALSE, 0, ranges)

WithFormat(format) == Setter("WithFormat", FALSE, 0, format)
WithQuality(quality) == Setter("WithQuality", FALSE, quality, "")

\* DefaultTimeout = 30 * time.Second
DefaultTimeout == 30

\* opt(browser) for one BrowserOption
ApplyBrowserOption(o, opt) ==
    CASE opt.name = "WithTimeout" -> [o EXCEPT !.timeout = opt.n]
      [] opt.name = "WithUserAgent" -> [o EXCEPT !.userAgent = opt.s]
      [] OTHER -> o

\* opt(pdfOpts) for one PDFOption
ApplyPDFOption(o, opt) ==
    CASE opt.name = "WithLandscape" -> [o EXCEPT !.landscape = opt.b]
      [] opt.name = "WithBackground" -> [o EXCEPT !.background = opt.b]
      [] opt.name = "WithScale" -> [o EXCEPT !.scale = opt.n]
      [] opt.name = "WithPaperWidth" -> [o EXCEPT !.pagerWidth = opt.n]
      [] opt.name = "WithPaperHeight" -> [o EXCEPT !.pagerHeight = opt.n]
      [] opt.name = "WithMarginTop" -> [o EXCEPT !.marginTop = opt.n]
      [] opt.name = "WithMarginBottom" -> [o EXCEPT !.marginBottom = opt.n]
      [] opt.name = "WithMarginLeft" -> [o EXCEPT !.marginLeft = opt.n]
      [] opt.name = "WithMarginRight" -> [o EXCEPT !.marginRight = opt.n]
      [] opt.name = "WithPageRanges" -> [o EXCEPT !.pageRanges = opt.s]
      [] OTHER -> o

\* opt(screenshotOpts) for one ScreenshotOption
ApplyScreenshotOption(o, opt) ==
    CASE opt.name = "WithFormat" -> [o EXCEPT !.format = opt.s]
      [] opt.name = "WithQuality" -> [o EXCEPT !.quality = opt.n]
      [] OTHER -> o

\* browser := &BrowserOptions{timeout: DefaultTimeout}
NewBrowserOptions == [timeout |-> DefaultTimeout, userAgent |-> ""]

\* pdfOpts := &PDFOptions{}
NewPDFOptions ==
    [landscape |-> FALSE, background |-> FALSE, scale |-> 0,
     pagerWidth |-> 0, pagerHeight |-> 0,
     marginTop |-> 0, marginBottom |-> 0, marginLeft |-> 0, marginRight |-> 0,
     pageRanges |-> ""]

\* Mutant of NewScreenshotOptions: the struct is left zero-valued.
NewScreenshotOptionsZero == [format |-> "", quality |-> 0]

\* screenshotOpts := &ScreenshotOptions{format: "png", quality: 100}
NewScreenshotOptions == [format |-> "png", quality |-> 100]

\* for _, opt := range opts { opt(browser) }
RECURSIVE BrowserLoop(_, _, _)
BrowserLoop(o, opts, i) ==
    IF i > Len(opts) THEN o
    ELSE BrowserLoop(ApplyBrowserOption(o, opts[i]), opts, i + 1)

\* Mutant of PDFLoop: the setters are applied from the last to the first.
RECURSIVE PDFLoopBackwards(_, _, _)
PDFLoopBackwards(o, opts, i) ==
    IF i > Len(opts) THEN o
    ELSE ApplyPDFOption(PDFLoopBackwards(o, opts, i + 1), opts[i])

\* for _, opt := range opts { opt(pdfOpts) }
RECURSIVE PDFLoop(_, _, _)
PDFLoop(o, opts, i) ==
    IF i > Len(opts) THEN o
    ELSE PDFLoop(ApplyPDFOption(o, opts[i]), opts, i + 1)

\* for _, opt := range opts { opt(screenshotOpts) }
RECURSIVE ScreenshotLoop(_, _, _)
ScreenshotLoop(o, opts, i) ==
    IF i > Len(opts) THEN o
    ELSE ScreenshotLoop(ApplyScreenshotOption(o, opts[i]), opts, i + 1)

\* New(url, opts...): the browser options of the page handle
BuildBrowserOptions(opts) == BrowserLoop(NewBrowserOptions, opts, 1)

\* PDF(ctx, opts...): the PDF options of the call
BuildPDFOptions(opts) == PDFLoop(NewPDFOptions, opts, 1)

\* Screenshot(ctx, opts...): the screenshot options of the call
BuildScreenshotOptions(opts) == ScreenshotLoop(NewScreenshotOptions, opts, 1)

\* execOpts: the three fixed flags, plus the user agent when one is set
ExecOpts(browser) ==
    {"DisableGPU", "NoSandbox", "Headless"}
        \cup (IF browser.userAgent # "" THEN {"UserAgent"} ELSE {})

\* page.PrintToPDF().WithLandscape(...)...: the parameters sent to the browser
PrintToPDFParams(o) ==
    [method |-> "Page.printToPDF",
     landscape |-> o.landscape, printBackground |-> o.background,
     scale |-> o.scale, paperWidth |-> o.pagerWidth, paperHeight |-> o.pagerHeight,
     marginTop |-> o.marginTop, marginBottom |-> o.marginBottom,
     marginLeft |-> o.marginLeft, marginRight |-> o.marginRight,
     pageRanges |-> o.pageRanges]

\* page.CaptureScreenshot().WithCaptureBeyondViewport(true)...
CaptureScreenshotParams(o) ==
    [method |-> "Page.captureScreenshot",
     captureBeyondViewport |-> TRUE, fromSurface |-> TRUE,
     format |-> o.format, quality |-> o.quality]

(***************************************************************************)
(* Errors: fmt.Errorf("prefix: %w", err) puts one message in front of the  *)
(* chain; errors.Is follows the chain to its root cause.                   *)
(***************************************************************************)
Wrap(prefix, err) == <<prefix>> \o err

DeadlineExceeded == "context deadline exceeded"
Canceled == "context canceled"
LaunchError == "exec: chrome: executable file not found"
NavError == "page load error net::ERR_NAME_NOT_RESOLVED"
ExportError == "cdp: remote call failed"

Cause(err) == err[Len(err)]

\* The wrapping the ActionFunc adds to the terminal remote call's error.
TerminalPrefix(kind) ==
    IF kind = "pdf" THEN "failed to generate PDF" ELSE "failed to capture screenshot"

\* Mutant of ActionFuncResult: the error is formatted with %v, which cuts the chain.
ActionFuncResultUnchained(kind, err) ==
    IF err # <<>> THEN <<TerminalPrefix(kind)>> ELSE <<>>

\* Mutant of ActionFuncResult: the remote call's error is returned as it is.
ActionFuncResultBare(kind, err) == err

\* if err != nil { return fmt.Errorf("failed to generate PDF: %w", err) }; return nil
ActionFuncResult(kind, err) ==
    IF err # <<>> THEN Wrap(TerminalPrefix(kind), err) ELSE <<>>

\* Mutant of RunResult: the result buffer is returned beside the error.
RunResultWithBuffer(buf, err) ==
    IF err # <<>>
    THEN [bytes |-> buf, err |-> Wrap("failed to execute tasks", err)]
    ELSE [bytes |-> buf, err |-> <<>>]

\* if err := chromedp.Run(...); err != nil { return nil, fmt.Errorf(...) }; return buf, nil
RunResult(buf, err) ==
    IF err # <<>>
    THEN [bytes |-> <<>>, err |-> Wrap("failed to execute tasks", err)]
    ELSE [bytes |-> buf, err |-> <<>>]

(***************************************************************************)
(* One export call.  Its stages are those of the specification: Idle,      *)
(* Launching (chromedp.Run allocates the browser), Navigating (the         *)
(* Navigate action is pending), Exporting (the terminal remote call is     *)
(* pending), then Done or Failed (the call has returned).                  *)
(***************************************************************************)
InProgress == {"Launching", "Navigating", "Exporting"}
Returned == {"Done", "Failed"}

NoParams == [method |-> "none"]

IdleCall ==
    [pc |-> "Idle", kind |-> "none", bopts |-> <<>>, eopts |-> <<>>,
     browser |-> NewBrowserOptions, execOpts |-> {}, params |-> NoParams,
     alloc |-> FALSE, session |-> FALSE, timer |-> FALSE, proc |-> 0,
     ctxErr |-> "", buf |-> <<>>, retBytes |-> <<>>, retErr |-> <<>>,
     issued |-> <<>>]

\* Bytes the browser may answer the terminal remote call with.
Payloads == {<<37, 80>>, <<137, 80, 78>>}
\* What a failing remote call may have left in the result buffer.
Partials == {<<>>, <<37>>}

\* The option sequences the host program hands to New and to PDF / Screenshot.
InputSamples ==
    {[kind |-> "pdf", bopts |-> <<>>, eopts |-> <<>>],
     [kind |-> "screenshot", bopts |-> <<WithTimeout(5), WithUserAgent("agent")>>,
      eopts |-> <<WithFormat("jpeg"), WithQuality(90)>>]}

\* The parameters of the terminal remote call, built from the call's own options.
TerminalParams(kind, eopts) ==
    IF kind = "pdf" THEN PrintToPDFParams(BuildPDFOptions(eopts))
    ELSE CaptureScreenshotParams(BuildScreenshotOptions(eopts))

\* Mutant of Teardown: the allocator's cancel is not deferred.
TeardownKeepsAllocator(r) == [r EXCEPT !.timer = FALSE, !.session = FALSE]

\* The three deferred cancel() calls, run as the call unwinds.
Teardown(r) == [r EXCEPT !.timer = FALSE, !.session = FALSE, !.alloc = FALSE]

\* Mutant of KilledBy: the calls share one allocator, whose cancel ends every browser.
KilledBySharedAllocator(r) == liveProcs

\* Cancelling the allocator context ends the browser process it started.
KilledBy(r) == IF r.proc = 0 THEN {} ELSE {r.proc}

\* Mutant of NextStage: the export follows the launch, navigation is skipped.
NextStageSkipsNavigation(pc) ==
    CASE pc = "Launching" -> "Exporting"
      [] pc = "Navigating" -> "Exporting"
      [] OTHER -> pc

\* The stage a call moves to when a pending step succeeds.
NextStage(pc) ==
    CASE pc = "Launching" -> "Navigating"
      [] pc = "Navigating" -> "Exporting"
      [] OTHER -> pc

\* chromedp.Run has returned err: the return statement and the deferred teardown.
Finish(c, buf, err) ==
    LET res == RunResult(buf, err)
        r == [calls[c] EXCEPT !.buf = buf, !.retBytes = res.bytes, !.retErr = res.err,
                              !.pc = IF res.err = <<>> THEN "Done" ELSE "Failed"]
    IN /\ calls' = [calls EXCEPT ![c] = Teardown(r)]
       /\ liveProcs' = liveProcs \ KilledBy(r)
       /\ UNCHANGED nextProc

\* New(url, opts...) followed by PDF / Screenshot up to the start of chromedp.Run.
StartCall(c, in) ==
    LET browser == BuildBrowserOptions(in.bopts)
    IN /\ calls[c].pc = "Idle"
       /\ calls' = [calls EXCEPT ![c] =
              [IdleCall EXCEPT !.pc = "Launching", !.kind = in.kind,
                               !.bopts = in.bopts, !.eopts = in.eopts,
                               !.browser = browser, !.execOpts = ExecOpts(browser),
                               !.alloc = TRUE, !.session = TRUE, !.timer = TRUE,
                               !.issued = <<"launch">>]]
       /\ UNCHANGED <<liveProcs, nextProc>>

\* A host program calls page.PDF or page.Screenshot.
Call(c) ==
    /\ \E in \in InputSamples : StartCall(c, in)
    /\ UNCHANGED <<cli, built>>

\* The allocator starts a browser process for this call.
LaunchOK(c) ==
    /\ calls[c].pc = "Launching"
    /\ calls[c].ctxErr = ""
    /\ calls' = [calls EXCEPT ![c].pc = NextStage(calls[c].pc), ![c].proc = nextProc,
                              ![c].issued = Append(@, "Page.navigate")]
    /\ liveProcs' = liveProcs \cup {nextProc}
    /\ nextProc' = nextProc + 1
    /\ UNCHANGED <<cli, built>>

\* The browser cannot be started.
LaunchFail(c) ==
    /\ calls[c].pc = "Launching"
    /\ calls[c].ctxErr = ""
    /\ Finish(c, <<>>, <<LaunchError>>)
    /\ UNCHANGED <<cli, built>>

\* chromedp.Navigate(w.url) succeeds; the ActionFunc issues the terminal remote call.
NavOK(c) ==
    /\ calls[c].pc = "Navigating"
    /\ calls[c].ctxErr = ""
    /\ LET p == TerminalParams(calls[c].kind, calls[c].eopts)
       IN calls' = [calls EXCEPT ![c].pc = NextStage(calls[c].pc), ![c].params = p,
                                 ![c].issued = Append(@, p.method)]
    /\ UNCHANGED <<liveProcs, nextProc, cli, built>>

\* chromedp.Navigate(w.url) fails.
NavFail(c) ==
    /\ calls[c].pc = "Navigating"
    /\ calls[c].ctxErr = ""
    /\ Finish(c, <<>>, <<NavError>>)
    /\ UNCHANGED <<cli, built>>

\* The terminal remote call answers with the exported bytes.
ExportOK(c) ==
    /\ calls[c].pc = "Exporting"
    /\ calls[c].ctxErr = ""
    /\ \E data \in Payloads : Finish(c, data, ActionFuncResult(calls[c].kind, <<>>))
    /\ UNCHANGED <<cli, built>>

\* The terminal remote call fails.
ExportFail(c) ==
    /\ calls[c].pc = "Exporting"
    /\ calls[c].ctxErr = ""
    /\ \E part \in Partials :
           Finish(c, part, ActionFuncResult(calls[c].kind, <<ExportError>>))
    /\ UNCHANGED <<cli, built>>

\* context.WithTimeout: the configured timeout elapses while the call runs.
TimeoutFires(c) ==
    /\ calls[c].pc \in InProgress
    /\ calls[c].timer
    /\ calls[c].ctxErr = ""
    /\ calls' = [calls EXCEPT ![c].ctxErr = DeadlineExceeded]
    /\ UNCHANGED <<liveProcs, nextProc, cli, built>>

\* The caller cancels the context it passed to the call.
CallerCancels(c) ==
    /\ calls[c].pc \in InProgress
    /\ calls[c].ctxErr = ""
    /\ calls' = [calls EXCEPT ![c].ctxErr = Canceled]
    /\ UNCHANGED <<liveProcs, nextProc, cli, built>>

\* The pending step sees its context done and returns ctx.Err().
CtxAbort(c) ==
    /\ calls[c].pc \in InProgress
    /\ calls[c].ctxErr # ""
    /\ Finish(c, <<>>,
              IF calls[c].pc = "Exporting"
              THEN ActionFuncResult(calls[c].kind, <<calls[c].ctxErr>>)
              ELSE <<calls[c].ctxErr>>)
    /\ UNCHANGED <<cli, built>>

(***************************************************************************)
(* The command line tool (cmd/webpage/main.go).  One process runs one      *)
(* subcommand; its export call is call 1.                                  *)
(***************************************************************************)
\* init(): the flag variables with the defaults the flags are registered with.
DefaultFlags ==
    [timeout |-> 30, userAgent |-> "", output |-> "output",
     landscape |-> FALSE, background |-> FALSE, scale |-> 10,
     paperWidth |-> 85, paperHeight |-> 110,
     marginTop |-> 4, marginBottom |-> 4, marginLeft |-> 4, marginRight |-> 4,
     pageRanges |-> "", format |-> "png", quality |-> 100]

\* Flag parsing: a flag given on the command line replaces its default.
ParseFlags(given, val) ==
    [f \in DOMAIN DefaultFlags |-> IF f \in given THEN val[f] ELSE DefaultFlags[f]]

\* Command lines: subcommand, number of positional arguments, flags given.
CommandLines ==
    <<[cmd |-> "pdf", nargs |-> 1, given |-> {}, val |-> DefaultFlags],
      [cmd |-> "pdf", nargs |-> 1, given |-> {"output"},
       val |-> [DefaultFlags EXCEPT !.output = "out.pdf"]],
      [cmd |-> "pdf", nargs |-> 1,
       given |-> {"output", "timeout", "userAgent", "landscape", "scale", "marginTop",
                  "pageRanges"},
       val |-> [DefaultFlags EXCEPT !.output = "out.pdf", !.timeout = 60,
                                    !.userAgent = "agent", !.landscape = TRUE,
                                    !.scale = 12, !.marginTop = 10, !.pageRanges = "1-5"]],
      [cmd |-> "screenshot", nargs |-> 1, given |-> {}, val |-> DefaultFlags],
      [cmd |-> "screenshot", nargs |-> 1, given |-> {"output", "format", "quality"},
       val |-> [DefaultFlags EXCEPT !.output = "out.jpg", !.format = "jpeg",
                                    !.quality = 90]],
      [cmd |-> "pdf", nargs |-> 0, given |-> {}, val |-> DefaultFlags],
      [cmd |-> "screenshot", nargs |-> 2, given |-> {}, val |-> DefaultFlags]>>

\* What is at the -o path when the process starts.
NoFile == [exists |-> FALSE, data |-> <<>>]
InitialFiles == {NoFile, [exists |-> TRUE, data |-> <<7, 7>>]}

ArgsError == "accepts 1 arg(s)"
WriteError == "open: permission denied"

\* opts := []webpage.BrowserOption{WithTimeout(timeout)}; if userAgent != "" { append }
CliBrowserOpts(flags) ==
    <<WithTimeout(flags.timeout)>>
        \o (IF flags.userAgent # "" THEN <<WithUserAgent(flags.userAgent)>> ELSE <<>>)

\* pdfOpts := []webpage.PDFOption{...}; if pageRanges != "" { append }
CliPDFOpts(flags) ==
    <<WithLandscape(flags.landscape), WithBackground(flags.background),
      WithScale(flags.scale), WithPaperWidth(flags.paperWidth),
      WithPaperHeight(flags.paperHeight), WithMarginTop(flags.marginTop),
      WithMarginBottom(flags.marginBottom), WithMarginLeft(flags.marginLeft),
      WithMarginRight(flags.marginRight)>>
        \o (IF flags.pageRanges # "" THEN <<WithPageRanges(flags.pageRanges)>> ELSE <<>>)

\* screenshotOpts := []webpage.ScreenshotOption{WithFormat(format), WithQuality(quality)}
CliScreenshotOpts(flags) == <<WithFormat(flags.format), WithQuality(flags.quality)>>

\* The prefix RunE puts before a failed export's error.
GeneratePrefix(cmd) ==
    IF cmd = "pdf" THEN "failed to generate PDF" ELSE "failed to capture screenshot"

\* The prefix RunE puts before a failed file write's error.
WritePrefix(cmd) ==
    IF cmd = "pdf" THEN "failed to write PDF file" ELSE "failed to write screenshot file"

\* The confirmation line RunE prints.
SavedLine(cmd) == IF cmd = "pdf" THEN "PDF saved to" ELSE "Screenshot saved to"

IdleCli ==
    [pc |-> "NotRun", cmd |-> "none", given |-> {}, flags |-> DefaultFlags,
     before |-> NoFile, file |-> NoFile, stderr |-> <<>>, stdout |-> <<>>, exit |-> -1]

\* main: rootCmd.Execute() returned err: print it and exit 1, or exit 0.
Exit(c, err, out, file) ==
    [c EXCEPT !.pc = "Exited", !.file = file, !.stdout = out,
              !.stderr = IF err # <<>> THEN Wrap("Error", err) ELSE <<>>,
              !.exit = IF err # <<>> THEN 1 ELSE 0]

\* cobra.ExactArgs(1) rejects the command line: RunE does not run.
CliArgsError ==
    /\ cli.pc = "NotRun"
    /\ \E i \in DOMAIN CommandLines, f \in InitialFiles :
         LET cl == CommandLines[i]
             c == [cli EXCEPT !.cmd = cl.cmd, !.given = cl.given,
                              !.flags = ParseFlags(cl.given, cl.val),
                              !.before = f, !.file = f]
         IN /\ cl.nargs # 1
            /\ cli' = Exit(c, <<ArgsError>>, <<>>, f)
    /\ UNCHANGED <<calls, liveProcs, nextProc, built>>

\* RunE up to the export call: the flags become options, the export starts.
CliStart ==
    /\ cli.pc = "NotRun"
    /\ \E i \in DOMAIN CommandLines, f \in InitialFiles :
         LET cl == CommandLines[i]
             flags == ParseFlags(cl.given, cl.val)
         IN /\ cl.nargs = 1
            /\ cli' = [cli EXCEPT !.pc = "Exporting", !.cmd = cl.cmd, !.given = cl.given,
                                  !.flags = flags, !.before = f, !.file = f]
            /\ StartCall(1, [kind |-> cl.cmd, bopts |-> CliBrowserOpts(flags),
                             eopts |-> IF cl.cmd = "pdf" THEN CliPDFOpts(flags)
                                       ELSE CliScreenshotOpts(flags)])
    /\ UNCHANGED built

\* Mutant of CliFinish: the file is written before the error is checked.
CliFinishWritesFirst ==
    /\ cli.pc = "Exporting"
    /\ calls[1].pc \in Returned
    /\ LET written == [exists |-> TRUE, data |-> calls[1].retBytes]
       IN IF calls[1].retErr # <<>>
          THEN cli' = Exit(cli, Wrap(GeneratePrefix(cli.cmd), calls[1].retErr), <<>>,
                           written)
          ELSE cli' = Exit(cli, <<>>, <<SavedLine(cli.cmd), cli.flags.output>>, written)
    /\ UNCHANGED <<calls, liveProcs, nextProc, built>>

\* RunE after the export call returned: the error check, os.WriteFile, the exit.
CliFinish ==
    /\ cli.pc = "Exporting"
    /\ calls[1].pc \in Returned
    /\ \/ /\ calls[1].retErr # <<>>
          /\ cli' = Exit(cli, Wrap(GeneratePrefix(cli.cmd), calls[1].retErr), <<>>,
                         cli.file)
       \/ /\ calls[1].retErr = <<>>
          /\ cli' = Exit(cli, <<>>, <<SavedLine(cli.cmd), cli.flags.output>>,
                         [exists |-> TRUE, data |-> calls[1].retBytes])
       \/ /\ calls[1].retErr = <<>>
          /\ \E f \in {cli.file, [exists |-> TRUE, data |-> <<>>]} :
               cli' = Exit(cli, Wrap(WritePrefix(cli.cmd), <<WriteError>>), <<>>, f)
    /\ UNCHANGED <<calls, liveProcs, nextProc, built>>

(***************************************************************************)
(* The option builders on their own: a host program builds a               *)
(* configuration from a sequence of setters.                               *)
(***************************************************************************)
BrowserSetters ==
    {WithTimeout(5), WithTimeout(60), WithUserAgent("agent"), WithUserAgent("")}

PDFSetters ==
    {WithLandscape(TRUE), WithLandscape(FALSE), WithBackground(TRUE),
     WithScale(12), WithScale(10), WithPaperWidth(110), WithPaperHeight(170),
     WithMarginTop(10), WithMarginTop(4), WithMarginBottom(10), WithMarginLeft(10),
     WithMarginRight(10), WithPageRanges("1-5"), WithPageRanges("")}

ScreenshotSetters ==
    {WithFormat("jpeg"), WithFormat("png"), WithQuality(90), WithQuality(500)}

SeqsUpTo(S, n) == UNION {[1..k -> S] : k \in 0..n}

NothingBuilt ==
    [target |-> "none", opts |-> <<>>, cfg |-> NewBrowserOptions, execOpts |-> {},
     params |-> NoParams]

\* New(url, opts...)
BuildBrowser ==
    /\ built.target = "none"
    /\ \E opts \in SeqsUpTo(BrowserSetters, MaxOpts) :
         LET cfg == BuildBrowserOptions(opts)
         IN built' = [target |-> "browser", opts |-> opts, cfg |-> cfg,
                      execOpts |-> ExecOpts(cfg), params |-> NoParams]
    /\ UNCHANGED <<calls, liveProcs, nextProc, cli>>

\* The options PDF(ctx, opts...) builds and the parameters it sends.
BuildPDF ==
    /\ built.target = "none"
    /\ \E opts \in SeqsUpTo(PDFSetters, MaxOpts) :
         LET cfg == BuildPDFOptions(opts)
         IN built' = [target |-> "pdf", opts |-> opts, cfg |-> cfg,
                      execOpts |-> {}, params |-> PrintToPDFParams(cfg)]
    /\ UNCHANGED <<calls, liveProcs, nextProc, cli>>

\* The options Screenshot(ctx, opts...) builds and the parameters it sends.
BuildScreenshot ==
    /\ built.target = "none"
    /\ \E opts \in SeqsUpTo(ScreenshotSetters, MaxOpts) :
         LET cfg == BuildScreenshotOptions(opts)
         IN built' = [target |-> "screenshot", opts |-> opts, cfg |-> cfg,
                      execOpts |-> {}, params |-> CaptureScreenshotParams(cfg)]
    /\ UNCHANGED <<calls, liveProcs, nextProc, cli>>

(***************************************************************************)
(* Specifications.                                                         *)
(***************************************************************************)
Init ==
    /\ calls = [c \in Calls |-> IdleCall]
    /\ liveProcs = {}
    /\ nextProc = 1
    /\ cli = IdleCli
    /\ built = NothingBuilt

\* A host program running export calls concurrently.
Next ==
    \E c \in Calls :
        \/ Call(c)
        \/ LaunchOK(c)
        \/ LaunchFail(c)
        \/ NavOK(c)
        \/ NavFail(c)
        \/ ExportOK(c)
        \/ ExportFail(c)
        \/ TimeoutFires(c)
        \/ CallerCancels(c)
        \/ CtxAbort(c)

Spec == Init /\ [][Next]_vars

\* The Go runtime delivers an expired timer, and a step waiting on a done
\* context returns; the browser is under no obligation to answer.
Fairness == \A c \in Calls : WF_vars(TimeoutFires(c)) /\ WF_vars(CtxAbort(c))

FairSpec == Init /\ [][Next]_vars /\ Fairness

\* The command line tool: one process, one export call on context.Background().
CliNext ==
    \/ CliArgsError
    \/ CliStart
    \/ LaunchOK(1)
    \/ LaunchFail(1)
    \/ NavOK(1)
    \/ NavFail(1)
    \/ ExportOK(1)
    \/ ExportFail(1)
    \/ TimeoutFires(1)
    \/ CtxAbort(1)
    \/ CliFinish

CliSpec == Init /\ [][CliNext]_vars

\* The option builders.
OptNext == BuildBrowser \/ BuildPDF \/ BuildScreenshot

OptSpec == Init /\ [][OptNext]_vars

(***************************************************************************)
(* Properties.                                                             *)
(***************************************************************************)
Range(seq) == {seq[i] : i \in DOMAIN seq}

\* C1: when an export call has returned (Done or Failed, on any exit path), its
\* allocator context, its session context and its deadline context are released
\* and the browser process it started is no longer running.
C1_ReleasedOnReturn ==
    \A c \in Calls :
        calls[c].pc \in Returned =>
            /\ ~calls[c].alloc
            /\ ~calls[c].session
            /\ ~calls[c].timer
            /\ calls[c].proc \notin liveProcs

\* A call that had started a browser and was cancelled by its caller has returned.
C1_Witness ==
    \E c \in Calls :
        /\ calls[c].pc = "Failed"
        /\ calls[c].ctxErr = Canceled
        /\ calls[c].proc # 0

\* C2: a returned call gives either bytes and no error, the bytes being those the
\* terminal remote call produced, or an error and no bytes, whatever the remote
\* call left in the result buffer.
C2_BytesXorError ==
    \A c \in Calls :
        calls[c].pc \in Returned =>
            \/ /\ calls[c].pc = "Done"
               /\ calls[c].retErr = <<>>
               /\ calls[c].retBytes # <<>>
               /\ calls[c].retBytes = calls[c].buf
            \/ /\ calls[c].pc = "Failed"
               /\ calls[c].retErr # <<>>
               /\ calls[c].retBytes = <<>>

\* A terminal remote call failed after writing into the result buffer.
C2_Witness ==
    \E c \in Calls :
        /\ calls[c].pc = "Failed"
        /\ calls[c].buf # <<>>
        /\ Len(calls[c].issued) = 3

\* C3: a call whose timeout elapsed while it was running has its session cancelled
\* and ends Failed with an error whose cause is the deadline, never Done; and
\* every started call eventually returns, whether or not the browser answers.
C3_TimeoutFails ==
    /\ [](\A c \in Calls :
            (calls[c].ctxErr = DeadlineExceeded /\ calls[c].pc \notin InProgress) =>
                /\ calls[c].pc = "Failed"
                /\ ~calls[c].session
                /\ Cause(calls[c].retErr) = "context deadline exceeded")
    /\ \A c \in Calls : (calls[c].pc \in InProgress) ~> (calls[c].pc \in Returned)

\* The timeout elapsed while the terminal remote call was pending.
C3_Witness ==
    \E c \in Calls :
        /\ calls[c].pc = "Failed"
        /\ calls[c].ctxErr = DeadlineExceeded
        /\ Len(calls[c].issued) = 3

\* C4: when the export of the pdf (screenshot) subcommand fails, the process exits
\* with code 1, standard error holds "failed to generate PDF" ("failed to capture
\* screenshot") and the file at the -o path is as it was; the file changes only
\* after a successful export, and a failed write is reported with the "failed to
\* write" message instead.
C4_CliExportFailure ==
    LET genMsg == IF cli.cmd = "pdf" THEN "failed to generate PDF"
                  ELSE "failed to capture screenshot"
        writeMsgs == {"failed to write PDF file", "failed to write screenshot file"}
    IN /\ (cli.pc = "Exited" /\ calls[1].pc = "Failed") =>
              /\ cli.exit = 1
              /\ genMsg \in Range(cli.stderr)
              /\ Range(cli.stderr) \cap writeMsgs = {}
              /\ cli.file = cli.before
       /\ cli.file # cli.before => calls[1].pc = "Done"
       /\ (cli.pc = "Exited" /\ calls[1].pc = "Done" /\ cli.exit # 0) =>
              /\ cli.exit = 1
              /\ Range(cli.stderr) \cap writeMsgs # {}
              /\ genMsg \notin Range(cli.stderr)

\* A failed export left an existing output file alone.
C4_Witness ==
    /\ cli.pc = "Exited"
    /\ calls[1].pc = "Failed"
    /\ cli.before.exists

\* The field each setter is for, and the argument it carries.
SetterField ==
    [WithTimeout |-> "timeout", WithUserAgent |-> "userAgent",
     WithLandscape |-> "landscape", WithBackground |-> "background",
     WithScale |-> "scale", WithPaperWidth |-> "pagerWidth",
     WithPaperHeight |-> "pagerHeight", WithMarginTop |-> "marginTop",
     WithMarginBottom |-> "marginBottom", WithMarginLeft |-> "marginLeft",
     WithMarginRight |-> "marginRight", WithPageRanges |-> "pageRanges",
     WithFormat |-> "format", WithQuality |-> "quality"]

SetterArg(opt) ==
    IF opt.name \in {"WithLandscape", "WithBackground"} THEN opt.b
    ELSE IF opt.name \in {"WithUserAgent", "WithPageRanges", "WithFormat"} THEN opt.s
    ELSE opt.n

\* The value of the last setter for `field` in opts, or def when there is none.
LastWrite(opts, field, def) ==
    LET at == {i \in DOMAIN opts : SetterField[opts[i].name] = field}
    IN IF at = {} THEN def
       ELSE SetterArg(opts[CHOOSE i \in at : \A j \in at : j <= i])

DefaultConfig(target) ==
    CASE target = "pdf" -> NewPDFOptions
      [] target = "screenshot" -> NewScreenshotOptions
      [] OTHER -> NewBrowserOptions

\* C5: whatever sequence of setters a configuration is built from, each field
\* holds the argument of the last setter for that field, or the default when no
\* setter for it was given.
C5_LastWriteWins ==
    built.target # "none" =>
        \A f \in DOMAIN built.cfg :
            built.cfg[f] = LastWrite(built.opts, f, DefaultConfig(built.target)[f])

\* Two setters for one field with different arguments, then the second one wins.
C5_Witness ==
    /\ built.target = "pdf"
    /\ Len(built.opts) >= 2
    /\ built.opts[1].name = "WithScale"
    /\ built.opts[2].name = "WithScale"
    /\ built.opts[1].n # built.opts[2].n
    /\ built.cfg.scale = built.opts[2].n

C7_Isolation ==
    /\ [](\A c \in Calls :
            /\ \A d \in Calls \ {c} :
                   calls[c].proc # 0 => calls[c].proc # calls[d].proc
            /\ calls[c].pc \in {"Navigating", "Exporting"} =>
                   /\ calls[c].proc \in liveProcs
                   /\ calls[c].alloc /\ calls[c].session)
    /\ [][\A c \in Calls :
            calls'[c] # calls[c] => \A d \in Calls \ {c} : calls'[d] = calls[d]]_vars

\* One call has failed and torn down while another is still exporting.
C7_Witness ==
    \E c, d \in Calls :
        /\ c # d
        /\ calls[c].pc = "Failed"
        /\ calls[c].proc # 0
        /\ calls[d].pc = "Exporting"

StageOrder ==
    {<<"Idle", "Launching">>, <<"Launching", "Navigating">>, <<"Launching", "Failed">>,
     <<"Navigating", "Exporting">>, <<"Navigating", "Failed">>,
     <<"Exporting", "Done">>, <<"Exporting", "Failed">>}

\* C8: a call's stage only moves forward along Idle, Launching, Navigating,
\* Exporting, Done or Failed; launch, navigation and the terminal remote call are
\* each issued at most once and in that order, the terminal call only after
\* navigation succeeded; a call that ends Done issued all three, and a failed
\* navigation ends Failed without the terminal call.
C8_LinearStages ==
    /\ [][\A c \in Calls :
            calls'[c].pc # calls[c].pc => <<calls[c].pc, calls'[c].pc>> \in StageOrder]_vars
    /\ [](\A c \in Calls :
            LET terminal == IF calls[c].kind = "pdf" THEN "Page.printToPDF"
                            ELSE "Page.captureScreenshot"
                full == <<"launch", "Page.navigate", terminal>>
                n == Len(calls[c].issued)
            IN /\ n <= 3
               /\ calls[c].issued = SubSeq(full, 1, n)
               /\ calls[c].pc = "Launching" => n = 1
               /\ calls[c].pc = "Navigating" => n = 2
               /\ calls[c].pc \in {"Exporting", "Done"} => n = 3
               /\ (calls[c].pc = "Failed" /\ NavError \in Range(calls[c].retErr)) => n = 2)

\* A navigation failed.
C8_Witness ==
    \E c \in Calls : calls[c].pc = "Failed" /\ NavError \in Range(calls[c].retErr)

\* C9: of the errors the library returns for a failure during navigation or during
\* the terminal remote call, only the latter carries the terminal call's message,
\* so the library's wrapping tells the two apart; and the message the command
\* line tool adds names the export for a failed export and the write for a failed
\* write.
C9_StageIdentified ==
    LET terminalMsg == IF calls[1].kind = "pdf" THEN "failed to generate PDF"
                       ELSE "failed to capture screenshot"
        writeMsg == IF cli.cmd = "pdf" THEN "failed to write PDF file"
                    ELSE "failed to write screenshot file"
        n == Len(calls[1].issued)
    IN /\ (calls[1].pc = "Failed" /\ n >= 2) =>
              /\ calls[1].retErr[1] = "failed to execute tasks"
              /\ Len(calls[1].retErr) >= 2
              /\ (n = 3) <=> (calls[1].retErr[2] = terminalMsg)
       /\ (cli.pc = "Exited" /\ calls[1].pc \in Returned /\ cli.exit = 1) =>
              /\ cli.stderr[1] = "Error"
              /\ (calls[1].pc = "Failed") <=> (cli.stderr[2] = terminalMsg)
              /\ (calls[1].pc = "Done") <=> (cli.stderr[2] = writeMsg)

\* The command line tool reported a failure of the terminal remote call.
C9_Witness ==
    /\ cli.pc = "Exited"
    /\ calls[1].pc = "Failed"
    /\ Len(calls[1].issued) = 3

\* The defaults the README documents for the PDF options.
ReadmePDFDefaults ==
    [method |-> "Page.printToPDF", landscape |-> FALSE, printBackground |-> FALSE,
     scale |-> 10, paperWidth |-> 85, paperHeight |-> 110,
     marginTop |-> 4, marginBottom |-> 4, marginLeft |-> 4, marginRight |-> 4,
     pageRanges |-> ""]

PDFFlags ==
    {"landscape", "background", "scale", "paperWidth", "paperHeight", "marginTop",
     "marginBottom", "marginLeft", "marginRight", "pageRanges"}

\* The pdf subcommand run with no PDF flag sends the README's defaults.
CliSendsReadmeDefaults ==
    (cli.cmd = "pdf" /\ cli.given \cap PDFFlags = {}
        /\ calls[1].params.method = "Page.printToPDF") =>
            calls[1].params = ReadmePDFDefaults

\* C10: a PDF export with no PDF option set sends the defaults the README
\* documents, through the library (no PDFOption) as through the pdf subcommand
\* (no PDF flag).
C10_ReadmeDefaults ==
    /\ \A c \in Calls :
           (cli.pc = "NotRun" /\ calls[c].kind = "pdf" /\ calls[c].eopts = <<>>
               /\ calls[c].params.method = "Page.printToPDF") =>
                   calls[c].params = ReadmePDFDefaults
    /\ CliSendsReadmeDefaults

====
